---- MODULE Spec2Model ----
(***************************************************************************)
(* Model of the discrete-time EDF / RMS scheduling simulator of            *)
(* src/scheduler.py: class Task, class Scheduler with its run loop, and    *)
(* the two policies EDFScheduler and RMSScheduler.  Under Spec a behaviour *)
(* is one call of run(tasks, max_time) on a newly constructed scheduler    *)
(* over newly constructed tasks; under SpecTwoRuns the caller then builds  *)
(* the same tasks and a new scheduler again and runs a second time.  The   *)
(* loop of run is cut at the places where the code changes the ready queue *)
(* or the clock.  Tasks have arrival_time >= 0, burst_time > 0,            *)
(* deadline > 0, period >= 0 and distinct ids.                             *)
(*                                                                         *)
(* Further specifications: SpecReuse runs again on a used scheduler or on  *)
(* used tasks, SpecAnyArgs passes any arguments to Task(...), SpecGUI is   *)
(* run_simulation and show_results of src/GUI.py, SpecDefaultPeriod also   *)
(* calls Task(...) without a period, SpecCLI is                            *)
(* EDFTaskScheduler.run_scheduler of src/main.py and SpecCLITwoRuns calls  *)
(* it a second time on the same scheduler.                                 *)
(***************************************************************************)
EXTENDS Integers, Sequences, FiniteSets, TLC

VARIABLES inputs, policy, max_time, tasks, time, ready_queue, history,
          completed_tasks, missed_deadlines, task_counter, task_idx, pc,
          runs, prev, cli

vars == <<inputs, policy, max_time, tasks, time, ready_queue, history,
          completed_tasks, missed_deadlines, task_counter, task_idx, pc,
          runs, prev, cli>>

(***************************************************************************)
(* Bounds of the model.                                                    *)
(***************************************************************************)
MaxTasks == 2
MaxArrival == 1
MaxBurst == 2
MaxDeadline == 3
MaxPeriod == 1
MaxTime == 5

(***************************************************************************)
(* Inputs.  A row holds the arguments of one Task(...) call:               *)
(* <<task_id, arrival_time, burst_time, deadline, period>>.                *)
(***************************************************************************)
TaskIds == <<"T1", "T2", "T3", "T4">>

IDLE == "IDLE"

Policies == {"EDF", "RMS"}

RowArgs == (0..MaxArrival) \X (1..MaxBurst) \X (1..MaxDeadline) \X (0..MaxPeriod)

MakeRows(f) == [i \in 1..Len(f) |-> <<TaskIds[i], f[i][1], f[i][2], f[i][3], f[i][4]>>]

InputSets == {MakeRows(f) : f \in UNION {[1..n -> RowArgs] : n \in 0..MaxTasks}}

\* the task sets of test_edf_preemption and test_rms_preemption
TestEDFInputs == << <<"T1", 0, 3, 10, 0>>, <<"T2", 1, 2, 4, 0>> >>

TestRMSInputs == << <<"T1", 0, 3, 10, 10>>, <<"T2", 1, 2, 5, 5>> >>

TestMaxTime == 10

(***************************************************************************)
(* class Task                                                              *)
(***************************************************************************)
Task(row) ==
    [task_id           |-> row[1],
     arrival_time      |-> row[2],
     burst_time        |-> row[3],
     remaining_time    |-> row[3],
     deadline          |-> row[4],
     period            |-> row[5],
     absolute_deadline |-> row[2] + row[4],
     start_time        |-> -1,
     completion_time   |-> -1,
     missed_deadline   |-> FALSE,
     counter           |-> 0]

FreshTasks(rows) == [i \in 1..Len(rows) |-> Task(rows[i])]

(***************************************************************************)
(* The command-line engine of src/main.py has a Task class and a scheduler *)
(* of its own.  A row holds the arguments of one Task(...) call there:     *)
(* <<task_id, execution_time, deadline, arrival_time>>, the deadline being *)
(* a point in time.  The variable cli is one EDFTaskScheduler object with  *)
(* the tasks added to it; cli.pc is the position in run_scheduler and      *)
(* cli.max_time the local variable of that name.                           *)
(***************************************************************************)
None == -1

CLITask(row) ==
    [task_id         |-> row[1],
     execution_time  |-> row[2],
     deadline        |-> row[3],
     arrival_time    |-> row[4],
     remaining_time  |-> row[2],
     start_time      |-> None,
     completion_time |-> None,
     is_completed    |-> FALSE,
     missed_deadline |-> FALSE]

EDFTaskScheduler(rows) ==
    [tasks                  |-> [i \in 1..Len(rows) |-> CLITask(rows[i])],
     current_time           |-> 0,
     completed_tasks        |-> <<>>,
     missed_deadlines_count |-> 0,
     timeline               |-> <<>>,
     max_time               |-> 0,
     pc                     |-> "added"]

(***************************************************************************)
(* tasks.sort(key=lambda x: x.arrival_time): a stable sort.                *)
(***************************************************************************)
RECURSIVE InsertByArrival(_, _)
InsertByArrival(s, x) ==
    IF s = <<>> THEN <<x>>
    ELSE IF s[Len(s)].arrival_time <= x.arrival_time THEN Append(s, x)
    ELSE Append(InsertByArrival(SubSeq(s, 1, Len(s) - 1), x), s[Len(s)])

RECURSIVE SortByArrival(_)
SortByArrival(s) ==
    IF s = <<>> THEN <<>>
    ELSE InsertByArrival(SortByArrival(SubSeq(s, 1, Len(s) - 1)), s[Len(s)])

(***************************************************************************)
(* The policies: the priority key pushed by add_task.                      *)
(***************************************************************************)
\* EDF pushing the key of RMSScheduler.add_task
EDFKeyStatic(task) == IF task.period > 0 THEN task.period ELSE task.deadline

EDFKey(task) == task.absolute_deadline

\* RMS without the fallback to the relative deadline
RMSKeyPeriodOnly(task) == task.period

RMSKey(task) == IF task.period > 0 THEN task.period ELSE task.deadline

PriorityKey(p, task) == IF p = "EDF" THEN EDFKey(task) ELSE RMSKey(task)

\* the entry carries the counter the task object already had
QueueEntryStale(p, task, counter, ref) ==
    <<PriorityKey(p, task), task.arrival_time, task.counter, ref>>

\* the newest entry first among equal keys and arrivals
QueueEntryNewestFirst(p, task, counter, ref) ==
    <<PriorityKey(p, task), task.arrival_time, 0 - counter, ref>>

\* an entry without the sequence number
QueueEntryNoCounter(p, task, counter, ref) ==
    <<PriorityKey(p, task), task.arrival_time, 0, ref>>

\* the tuple add_task pushes; ref is the task object (its place in tasks)
QueueEntry(p, task, counter, ref) ==
    <<PriorityKey(p, task), task.arrival_time, counter, ref>>

(***************************************************************************)
(* heapq over tuples: Python compares tuples component by component, and   *)
(* heappop returns the least tuple of the heap.                            *)
(***************************************************************************)
TupleLess(a, b) ==
    \/ a[1] < b[1]
    \/ a[1] = b[1] /\ a[2] < b[2]
    \/ a[1] = b[1] /\ a[2] = b[2] /\ a[3] < b[3]

\* a queue that keeps one entry per key
heappushKeyed(q, item) == {e \in q : e[1] # item[1]} \cup {item}

heappush(q, item) == q \cup {item}

\* lines 94, 102, 105: heapq compares the entries as tuples; two entries
\* that agree on key, arrival_time and counter are told apart by their
\* Task objects, which have no order, and the comparison raises TypeError
PushRaises(q, item) ==
    \E e \in q : e[1] = item[1] /\ e[2] = item[2] /\ e[3] = item[3]

MinEntry(q) == CHOOSE e \in q : \A o \in q \ {e} : TupleLess(e, o)

(***************************************************************************)
(* Pieces of the loop body of Scheduler.run.                               *)
(***************************************************************************)
\* admission one unit early
ArrivalDueEarly(task, t) == task.arrival_time <= t + 1

\* a task admitted one unit after its arrival
ArrivalDueLate(task, t) == task.arrival_time < t

ArrivalDue(task, t) == task.arrival_time <= t

ArrivalPending ==
    /\ task_idx < Len(tasks)
    /\ ArrivalDue(tasks[task_idx + 1], time)

\* an entry that ends where it starts
HistoryEntryInstant(t, id) == <<t, t, id>>

\* lines 63 and 78: one history entry covers one unit
HistoryEntry(t, id) == <<t, t + 1, id>>

\* the unit in which a task starts is not charged
ExecuteUnitFreeStart(task, t) ==
    [task EXCEPT !.start_time = IF @ = -1 THEN t ELSE @,
                 !.remaining_time = IF task.start_time = -1 THEN @ ELSE @ - 1]

\* start_time written at every unit, not only the first
ExecuteUnitRestart(task, t) ==
    [task EXCEPT !.start_time = t,
                 !.remaining_time = @ - 1]

\* start_time taken after the clock has moved
ExecuteUnitStartAtEnd(task, t) ==
    [task EXCEPT !.start_time = IF @ = -1 THEN t + 1 ELSE @,
                 !.remaining_time = @ - 1]

\* lines 59-65: first start, one unit of work
ExecuteUnit(task, t) ==
    [task EXCEPT !.start_time = IF @ = -1 THEN t ELSE @,
                 !.remaining_time = @ - 1]

MissedAtCompletion(task) == task.completion_time > task.absolute_deadline

\* a completed task released again with its full burst
CompleteAndRelease(task, t) ==
    LET done == [task EXCEPT !.completion_time = t + 1,
                             !.remaining_time = task.burst_time]
    IN  IF MissedAtCompletion(done)
        THEN [done EXCEPT !.missed_deadline = TRUE]
        ELSE done

\* completion stamped with the start of the last unit instead of its end
CompleteAtUnitStart(task, t) ==
    LET done == [task EXCEPT !.completion_time = t]
    IN  IF MissedAtCompletion(done)
        THEN [done EXCEPT !.missed_deadline = TRUE]
        ELSE done

\* lines 69-71: completion time and the missed-deadline flag
Complete(task, t) ==
    LET done == [task EXCEPT !.completion_time = t + 1]
    IN  IF MissedAtCompletion(done)
        THEN [done EXCEPT !.missed_deadline = TRUE]
        ELSE done

\* the increment moved out of the deadline test
MissIncrementAlways(task) == 1

\* line 72: the increment of missed_deadlines at completion
MissIncrement(task) == IF MissedAtCompletion(task) THEN 1 ELSE 0

(***************************************************************************)
(* Initial state: the caller has built the tasks, chosen a policy and a    *)
(* max_time, and constructed the scheduler (Scheduler.__init__).           *)
(***************************************************************************)
InitScheduler ==
    /\ time = 0
    /\ ready_queue = {}
    /\ history = <<>>
    /\ completed_tasks = <<>>
    /\ missed_deadlines = 0
    /\ task_counter = 0

Init ==
    /\ \/ /\ inputs \in InputSets
          /\ policy \in Policies
          /\ max_time \in 0..MaxTime
       \/ /\ inputs = TestEDFInputs
          /\ policy = "EDF"
          /\ max_time = TestMaxTime
       \/ /\ inputs = TestRMSInputs
          /\ policy = "RMS"
          /\ max_time = TestMaxTime
    /\ tasks = FreshTasks(inputs)
    /\ InitScheduler
    /\ task_idx = 0
    /\ pc = "start"
    /\ runs = 1
    /\ prev = <<>>
    /\ cli = EDFTaskScheduler(<<>>)

(***************************************************************************)
(* Scheduler.run                                                           *)
(***************************************************************************)
\* lines 43-45
RunStart ==
    /\ pc = "start"
    /\ tasks' = SortByArrival(tasks)
    /\ task_idx' = 0
    /\ pc' = "run"
    /\ UNCHANGED <<cli, inputs, policy, max_time, time, ready_queue, history,
                   completed_tasks, missed_deadlines, task_counter, runs, prev>>

\* lines 49-51 with add_task of the policy: one turn of the arrival loop
AddArrival ==
    /\ pc = "run"
    /\ time < max_time
    /\ ArrivalPending
    /\ LET i    == task_idx + 1
           item == QueueEntry(policy, tasks[i], task_counter, i)
       IN  /\ tasks' = [tasks EXCEPT ![i].counter = task_counter]
           /\ ready_queue' = heappush(ready_queue, item)
           /\ IF PushRaises(ready_queue, item)
              THEN /\ pc' = "error"
                   /\ UNCHANGED <<task_counter, task_idx>>
              ELSE /\ task_counter' = task_counter + 1
                   /\ task_idx' = task_idx + 1
                   /\ UNCHANGED pc
    /\ UNCHANGED <<cli, inputs, policy, max_time, time, history, completed_tasks,
                   missed_deadlines, runs, prev>>

\* lines 54-76 and 81: a task is selected and runs for one unit
ExecuteTask ==
    /\ pc = "run"
    /\ time < max_time
    /\ ~ArrivalPending
    /\ ready_queue # {}
    /\ LET item == MinEntry(ready_queue)
           rest == ready_queue \ {item}
           i    == item[4]
           ran  == ExecuteUnit(tasks[i], time)
           back == QueueEntry(policy, ran, task_counter, i)
       IN  /\ history' = Append(history, HistoryEntry(time, tasks[i].task_id))
           /\ IF ran.remaining_time = 0
              THEN /\ tasks' = [tasks EXCEPT ![i] = Complete(ran, time)]
                   /\ missed_deadlines' =
                          missed_deadlines + MissIncrement(Complete(ran, time))
                   /\ completed_tasks' = Append(completed_tasks, i)
                   /\ ready_queue' = rest
                   /\ time' = time + 1
                   /\ UNCHANGED <<task_counter, pc>>
              ELSE /\ tasks' = [tasks EXCEPT ![i] =
                                   [ran EXCEPT !.counter = task_counter]]
                   /\ ready_queue' = heappush(rest, back)
                   /\ IF PushRaises(rest, back)
                      THEN /\ pc' = "error"
                           /\ UNCHANGED <<task_counter, time>>
                      ELSE /\ task_counter' = task_counter + 1
                           /\ time' = time + 1
                           /\ UNCHANGED pc
                   /\ UNCHANGED <<missed_deadlines, completed_tasks>>
    /\ UNCHANGED <<cli, inputs, policy, max_time, task_idx, runs, prev>>

\* an idle unit that leaves no history entry
IdleUnrecorded ==
    /\ pc = "run"
    /\ time < max_time
    /\ ~ArrivalPending
    /\ ready_queue = {}
    /\ time' = time + 1
    /\ UNCHANGED <<cli, inputs, policy, max_time, tasks, ready_queue, history,
                   completed_tasks, missed_deadlines, task_counter, task_idx,
                   pc, runs, prev>>

\* lines 54, 77-81: nothing is ready
Idle ==
    /\ pc = "run"
    /\ time < max_time
    /\ ~ArrivalPending
    /\ ready_queue = {}
    /\ history' = Append(history, HistoryEntry(time, IDLE))
    /\ time' = time + 1
    /\ UNCHANGED <<cli, inputs, policy, max_time, tasks, ready_queue,
                   completed_tasks, missed_deadlines, task_counter, task_idx,
                   pc, runs, prev>>

\* the loop also left as soon as every task has completed
LoopExitAllCompleted ==
    \/ ~(time < max_time)
    \/ Len(tasks) > 0 /\ Len(completed_tasks) = Len(tasks)

\* a loop that stops one unit short of max_time
LoopExitOneShort == ~(time < max_time - 1)

\* lines 47 and 83: the loop condition fails and run returns
LoopExit == ~(time < max_time)

\* a return that completes whatever is still unfinished
ReturnForceComplete ==
    /\ pc = "run"
    /\ LoopExit
    /\ pc' = "done"
    /\ tasks' = [i \in 1..Len(tasks) |->
                    IF tasks[i].remaining_time > 0
                    THEN [tasks[i] EXCEPT !.remaining_time = 0,
                                          !.completion_time = time]
                    ELSE tasks[i]]
    /\ UNCHANGED <<cli, inputs, policy, max_time, time, ready_queue, history,
                   completed_tasks, missed_deadlines, task_counter, task_idx,
                   runs, prev>>

\* line 83: run returns the history and touches nothing else
Return ==
    /\ pc = "run"
    /\ LoopExit
    /\ pc' = "done"
    /\ UNCHANGED <<cli, inputs, policy, max_time, tasks, time, ready_queue, history,
                   completed_tasks, missed_deadlines, task_counter, task_idx,
                   runs, prev>>

Next == RunStart \/ AddArrival \/ ExecuteTask \/ Idle \/ Return

Spec == Init /\ [][Next]_vars

(***************************************************************************)
(* A second run by the same caller, as SchedulerApp.run_simulation does it *)
(* on every press of the button: the results of the run that ended are    *)
(* kept, the tasks are built again from the same rows, and a new scheduler *)
(* is constructed.                                                         *)
(***************************************************************************)
CompletedIds == [k \in 1..Len(completed_tasks) |-> tasks[completed_tasks[k]].task_id]

Results == [history   |-> history,
            completed |-> CompletedIds,
            missed    |-> missed_deadlines]

\* the second run is given the task objects of the first
RunAgainSameTasks ==
    /\ pc = "done"
    /\ runs = 1
    /\ prev' = <<Results>>
    /\ runs' = 2
    /\ time' = 0
    /\ ready_queue' = {}
    /\ history' = <<>>
    /\ completed_tasks' = <<>>
    /\ missed_deadlines' = 0
    /\ task_counter' = 0
    /\ task_idx' = 0
    /\ pc' = "start"
    /\ UNCHANGED <<cli, inputs, policy, max_time, tasks>>

RunAgain ==
    /\ pc = "done"
    /\ runs = 1
    /\ prev' = <<Results>>
    /\ runs' = 2
    /\ tasks' = FreshTasks(inputs)
    /\ time' = 0
    /\ ready_queue' = {}
    /\ history' = <<>>
    /\ completed_tasks' = <<>>
    /\ missed_deadlines' = 0
    /\ task_counter' = 0
    /\ task_idx' = 0
    /\ pc' = "start"
    /\ UNCHANGED <<cli, inputs, policy, max_time>>

NextTwoRuns == Next \/ RunAgain

SpecTwoRuns == Init /\ [][NextTwoRuns]_vars

(***************************************************************************)
(* Calls of run on objects an earlier run has used.  run itself holds no   *)
(* statement that resets the scheduler or the tasks: time, ready_queue,    *)
(* history, completed_tasks, missed_deadlines and _task_counter are set in *)
(* Scheduler.__init__ only, the task fields in Task.__init__ only.         *)
(***************************************************************************)
\* run is called again on the scheduler and the task list of the run that
\* returned, with a max_time at least as large
RunOnSameScheduler ==
    /\ pc = "done"
    /\ runs = 1
    /\ prev' = <<Results>>
    /\ runs' = 2
    /\ max_time' \in max_time..MaxTime
    /\ pc' = "start"
    /\ UNCHANGED <<cli, inputs, policy, tasks, time, ready_queue, history,
                   completed_tasks, missed_deadlines, task_counter, task_idx>>

\* a new scheduler is constructed and run on the task objects of the run
\* that returned
RunOnUsedTasks ==
    /\ pc = "done"
    /\ runs = 1
    /\ prev' = <<Results>>
    /\ runs' = 2
    /\ time' = 0
    /\ ready_queue' = {}
    /\ history' = <<>>
    /\ completed_tasks' = <<>>
    /\ missed_deadlines' = 0
    /\ task_counter' = 0
    /\ task_idx' = 0
    /\ pc' = "start"
    /\ UNCHANGED <<cli, inputs, policy, max_time, tasks>>

NextReuse == Next \/ RunOnSameScheduler \/ RunOnUsedTasks

SpecReuse == Init /\ [][NextReuse]_vars

(***************************************************************************)
(* Task.__init__ stores its arguments as they come: it has no test of      *)
(* arrival_time, burst_time or deadline.  Under SpecAnyArgs the caller     *)
(* also passes arguments outside the ranges of the data model.             *)
(***************************************************************************)
AnyRowArgs == (-1..MaxArrival) \X (0..MaxBurst) \X (0..MaxDeadline) \X {0}

AnyInputSets == {MakeRows(f) : f \in UNION {[1..n -> AnyRowArgs] : n \in 0..MaxTasks}}

InitAnyArgs ==
    /\ inputs \in AnyInputSets
    /\ policy \in Policies
    /\ max_time \in 0..MaxTime
    /\ tasks = FreshTasks(inputs)
    /\ InitScheduler
    /\ task_idx = 0
    /\ pc = "start"
    /\ runs = 1
    /\ prev = <<>>
    /\ cli = EDFTaskScheduler(<<>>)

SpecAnyArgs == InitAnyArgs /\ [][Next]_vars

(***************************************************************************)
(* The GUI.  run_simulation builds the tasks from the rows of the table,   *)
(* refuses an empty table, and runs a new scheduler up to the largest      *)
(* absolute deadline plus 20.  show_results then marks the history entries *)
(* it takes for missed, from the rows of the table alone.                  *)
(***************************************************************************)
GUISlack == 20

\* a burst that no run of the GUI can finish
LongBurst == GUISlack + MaxArrival + MaxDeadline + 1

GUIRowArgs ==
    (0..MaxArrival) \X {1, LongBurst} \X (1..MaxDeadline) \X (0..MaxPeriod)

GUIInputSets == {MakeRows(f) : f \in UNION {[1..n -> GUIRowArgs] : n \in 1..MaxTasks}}

RECURSIVE MaxAbsoluteDeadline(_)
MaxAbsoluteDeadline(ts) ==
    IF Len(ts) = 1 THEN ts[1].absolute_deadline
    ELSE LET m == MaxAbsoluteDeadline(Tail(ts))
         IN  IF ts[1].absolute_deadline > m THEN ts[1].absolute_deadline ELSE m

InitGUI ==
    /\ inputs \in GUIInputSets
    /\ policy \in Policies
    /\ tasks = FreshTasks(inputs)
    /\ max_time = MaxAbsoluteDeadline(tasks) + GUISlack
    /\ InitScheduler
    /\ task_idx = 0
    /\ pc = "start"
    /\ runs = 1
    /\ prev = <<>>
    /\ cli = EDFTaskScheduler(<<>>)

SpecGUI == InitGUI /\ [][Next]_vars

\* lines 313-322: the first row of the table with the entry's name decides
RowOf(task_id) ==
    LET ks == {k \in 1..Len(inputs) : inputs[k][1] = task_id}
    IN  IF ks = {} THEN 0 ELSE CHOOSE k \in ks : \A o \in ks : k <= o

task_missed(entry) ==
    LET k == RowOf(entry[3])
    IN  /\ k # 0
        /\ entry[1] >= inputs[k][2] + inputs[k][4]

(***************************************************************************)
(* EDFTaskScheduler.run_scheduler of src/main.py, one action per turn of   *)
(* its loop.                                                               *)
(***************************************************************************)
CLIRowArgs == (1..MaxBurst) \X (1..MaxDeadline) \X (0..MaxArrival)

CLIMakeRows(f) == [i \in 1..Len(f) |-> <<TaskIds[i], f[i][1], f[i][2], f[i][3]>>]

CLIInputSets ==
    {CLIMakeRows(f) : f \in UNION {[1..n -> CLIRowArgs] : n \in 0..MaxTasks}}

RECURSIVE InsertByDeadline(_, _)
InsertByDeadline(task, sorted) ==
    IF sorted = <<>> THEN <<task>>
    ELSE IF task.deadline < sorted[1].deadline THEN <<task>> \o sorted
    ELSE <<sorted[1]>> \o InsertByDeadline(task, Tail(sorted))

\* lines 56-58: list.sort is stable
RECURSIVE sort_tasks_by_deadline(_)
sort_tasks_by_deadline(ts) ==
    IF ts = <<>> THEN <<>>
    ELSE InsertByDeadline(ts[Len(ts)], sort_tasks_by_deadline(SubSeq(ts, 1, Len(ts) - 1)))

RECURSIVE MaxDeadlineOf(_)
MaxDeadlineOf(ts) ==
    IF ts = <<>> THEN 0
    ELSE LET m == MaxDeadlineOf(Tail(ts))
         IN  IF ts[1].deadline > m THEN ts[1].deadline ELSE m

all_tasks_completed(ts) == \A i \in 1..Len(ts) : ts[i].is_completed

\* line 90
CLILoopCondition ==
    /\ cli.current_time <= cli.max_time
    /\ ~all_tasks_completed(cli.tasks)

\* lines 92-96: tasks flagged by the test at the head of a turn
NewlyOverdue(ts, t) ==
    {i \in 1..Len(ts) : /\ ~ts[i].is_completed
                        /\ ts[i].remaining_time > 0
                        /\ t > ts[i].deadline
                        /\ ~ts[i].missed_deadline}

CheckMissed(ts, t) ==
    [i \in 1..Len(ts) |->
        IF i \in NewlyOverdue(ts, t)
        THEN [ts[i] EXCEPT !.missed_deadline = TRUE]
        ELSE ts[i]]

\* lines 60-72: the first of the ready tasks in deadline order, 0 for None
ReadyIndices(ts, t) ==
    {i \in 1..Len(ts) : /\ ts[i].arrival_time <= t
                        /\ ~ts[i].is_completed
                        /\ ts[i].remaining_time > 0}

get_next_ready_task(ts, t) ==
    LET ready == ReadyIndices(ts, t)
    IN  IF ready = {} THEN 0
        ELSE CHOOSE i \in ready :
                 \A o \in ready :
                     \/ ts[i].deadline < ts[o].deadline
                     \/ ts[i].deadline = ts[o].deadline /\ i <= o

TimelineEntry(t, id, executing) ==
    [time |-> t, task_id |-> id, executing |-> executing]

\* lines 110-114
CLIExecuteUnit(task, t) ==
    [task EXCEPT !.remaining_time = @ - 1,
                 !.start_time = IF @ = None THEN t ELSE @]

\* lines 118-124
CLIComplete(task, t) ==
    LET done == [task EXCEPT !.completion_time = t, !.is_completed = TRUE]
    IN  IF done.completion_time > done.deadline
        THEN [done EXCEPT !.missed_deadline = TRUE]
        ELSE done

\* lines 123-125: the increment at completion
CLIMissIncrement(task, t) == IF t > task.deadline THEN 1 ELSE 0

InitCLI ==
    /\ cli \in {EDFTaskScheduler(rows) : rows \in CLIInputSets}
    /\ inputs = <<>>
    /\ policy = "EDF"
    /\ max_time = 0
    /\ tasks = <<>>
    /\ InitScheduler
    /\ task_idx = 0
    /\ pc = "start"
    /\ runs = 1
    /\ prev = <<>>

\* lines 77-87
CLIRunStart ==
    /\ cli.pc = "added"
    /\ cli' = [cli EXCEPT !.current_time = 0,
                          !.completed_tasks = <<>>,
                          !.missed_deadlines_count = 0,
                          !.timeline = <<>>,
                          !.tasks = sort_tasks_by_deadline(cli.tasks),
                          !.max_time = MaxDeadlineOf(cli.tasks),
                          !.pc = "loop"]
    /\ UNCHANGED <<inputs, policy, max_time, tasks, time, ready_queue, history,
                   completed_tasks, missed_deadlines, task_counter, task_idx,
                   pc, runs, prev>>

\* lines 90-125 and 134: a turn of the loop in which a task is ready
CLIExecuteTask ==
    /\ cli.pc = "loop"
    /\ CLILoopCondition
    /\ LET t       == cli.current_time
           newly   == NewlyOverdue(cli.tasks, t)
           checked == CheckMissed(cli.tasks, t)
           i       == get_next_ready_task(checked, t)
       IN  /\ i # 0
           /\ LET ran == CLIExecuteUnit(checked[i], t)
              IN  IF ran.remaining_time = 0
                  THEN cli' = [cli EXCEPT
                          !.tasks = [checked EXCEPT ![i] = CLIComplete(ran, t)],
                          !.completed_tasks = Append(@, i),
                          !.missed_deadlines_count =
                              @ + Cardinality(newly) + CLIMissIncrement(ran, t),
                          !.timeline = Append(@, TimelineEntry(t, ran.task_id, TRUE)),
                          !.current_time = t + 1]
                  ELSE cli' = [cli EXCEPT
                          !.tasks = [checked EXCEPT ![i] = ran],
                          !.missed_deadlines_count = @ + Cardinality(newly),
                          !.timeline = Append(@, TimelineEntry(t, ran.task_id, TRUE)),
                          !.current_time = t + 1]
    /\ UNCHANGED <<inputs, policy, max_time, tasks, time, ready_queue, history,
                   completed_tasks, missed_deadlines, task_counter, task_idx,
                   pc, runs, prev>>

\* lines 90-99 and 126-134: a turn of the loop in which no task is ready
CLIIdle ==
    /\ cli.pc = "loop"
    /\ CLILoopCondition
    /\ LET t       == cli.current_time
           newly   == NewlyOverdue(cli.tasks, t)
           checked == CheckMissed(cli.tasks, t)
       IN  /\ get_next_ready_task(checked, t) = 0
           /\ cli' = [cli EXCEPT
                          !.tasks = checked,
                          !.missed_deadlines_count = @ + Cardinality(newly),
                          !.timeline = Append(@, TimelineEntry(t, IDLE, FALSE)),
                          !.current_time = t + 1]
    /\ UNCHANGED <<inputs, policy, max_time, tasks, time, ready_queue, history,
                   completed_tasks, missed_deadlines, task_counter, task_idx,
                   pc, runs, prev>>

\* lines 90 and 136
CLIReturn ==
    /\ cli.pc = "loop"
    /\ ~CLILoopCondition
    /\ cli' = [cli EXCEPT !.pc = "done"]
    /\ UNCHANGED <<inputs, policy, max_time, tasks, time, ready_queue, history,
                   completed_tasks, missed_deadlines, task_counter, task_idx,
                   pc, runs, prev>>

NextCLI == CLIRunStart \/ CLIExecuteTask \/ CLIIdle \/ CLIReturn

SpecCLI == InitCLI /\ [][NextCLI]_vars

\* what the caller reads after run_scheduler
CLIResults ==
    [timeline               |-> cli.timeline,
     missed_deadlines_count |-> cli.missed_deadlines_count]

\* run_scheduler is called once more on the same scheduler and tasks
CLIRunAgain ==
    /\ cli.pc = "done"
    /\ runs = 1
    /\ prev' = <<CLIResults>>
    /\ runs' = 2
    /\ cli' = [cli EXCEPT !.pc = "added"]
    /\ UNCHANGED <<inputs, policy, max_time, tasks, time, ready_queue, history,
                   completed_tasks, missed_deadlines, task_counter, task_idx,
                   pc>>

NextCLITwoRuns == NextCLI \/ CLIRunAgain

SpecCLITwoRuns == InitCLI /\ [][NextCLITwoRuns]_vars

(***************************************************************************)
(* Task(...) called with four arguments: period takes the default of the   *)
(* signature.  Under SpecDefaultPeriod a row of four elements is such a    *)
(* call and a row of five elements passes the period.                      *)
(***************************************************************************)
DefaultPeriod == 0

TaskOfCall(row) ==
    IF Len(row) = 4
    THEN Task(<<row[1], row[2], row[3], row[4], DefaultPeriod>>)
    ELSE Task(row)

ShortRowArgs == (0..MaxArrival) \X (1..MaxBurst) \X (1..MaxDeadline)

MakeCalls(f) ==
    [i \in 1..Len(f) |->
        IF Len(f[i]) = 3
        THEN <<TaskIds[i], f[i][1], f[i][2], f[i][3]>>
        ELSE <<TaskIds[i], f[i][1], f[i][2], f[i][3], f[i][4]>>]

CallSets ==
    {MakeCalls(f) :
        f \in UNION {[1..n -> ShortRowArgs \cup RowArgs] : n \in 0..MaxTasks}}

InitDefaultPeriod ==
    /\ inputs \in CallSets
    /\ policy \in Policies
    /\ max_time \in 0..MaxTime
    /\ tasks = [i \in 1..Len(inputs) |-> TaskOfCall(inputs[i])]
    /\ InitScheduler
    /\ task_idx = 0
    /\ pc = "start"
    /\ runs = 1
    /\ prev = <<>>
    /\ cli = EDFTaskScheduler(<<>>)

SpecDefaultPeriod == InitDefaultPeriod /\ [][Next]_vars

(***************************************************************************)
(* Vocabulary of the properties.                                           *)
(***************************************************************************)
TaskRefs == 1..Len(tasks)

AbsoluteDeadline(i) == tasks[i].arrival_time + tasks[i].deadline

StaticKey(i) == IF tasks[i].period > 0 THEN tasks[i].period ELSE tasks[i].deadline

\* the tasks that have arrived by the current unit and still have work
ReadyTasks == {i \in TaskRefs : tasks[i].arrival_time <= time
                                 /\ tasks[i].remaining_time > 0}

\* a step that simulates the unit [time, time + 1)
UnitStep == pc = "run" /\ time' = time + 1

Units(id) == {k \in 1..Len(history) : history[k][3] = id}

Ran(h) == [k \in 1..Len(h) |-> h[k][3]]

\* the trace asserted by both tests of test_scheduler.py
TestTrace == <<"T1", "T2", "T2", "T1", "T1">>

(***************************************************************************)
(* C1  EDF selection.  Under EDF, whenever a unit is simulated while some  *)
(* arrived task has remaining work, the history entry of that unit names a *)
(* ready task whose arrival_time + deadline is least among the ready       *)
(* tasks; the task set of test_edf_preemption runs T1,T2,T2,T1,T1.         *)
(***************************************************************************)
EDFStep ==
    (policy = "EDF" /\ UnitStep /\ ReadyTasks # {}) =>
        \E i \in ReadyTasks :
            /\ history' = Append(history, <<time, time + 1, tasks[i].task_id>>)
            /\ \A j \in ReadyTasks : AbsoluteDeadline(i) <= AbsoluteDeadline(j)

EDFTestTrace ==
    (inputs = TestEDFInputs /\ policy = "EDF" /\ pc = "done") =>
        SubSeq(Ran(history), 1, 5) = TestTrace

EDFSelection == [] EDFTestTrace /\ [][EDFStep]_vars

\* a later arrival with an earlier absolute deadline has taken the processor
\* from a task that still had work
EDFPreempted ==
    /\ policy = "EDF"
    /\ inputs # TestEDFInputs
    /\ \E k \in 1..(Len(history) - 1) : \E i, j \in TaskRefs :
          /\ history[k][3] = tasks[i].task_id
          /\ history[k + 1][3] = tasks[j].task_id
          /\ tasks[j].arrival_time = k
          /\ AbsoluteDeadline(j) < AbsoluteDeadline(i)
          /\ Cardinality({m \in 1..k : history[m][3] = tasks[i].task_id})
                < tasks[i].burst_time

(***************************************************************************)
(* C2  RMS selection.  Under RMS, whenever a unit is simulated while some  *)
(* arrived task has remaining work, the history entry of that unit names a *)
(* ready task whose static key (period if period > 0, else the relative    *)
(* deadline) is least among the ready tasks.                               *)
(***************************************************************************)
RMSStep ==
    (policy = "RMS" /\ UnitStep /\ ReadyTasks # {}) =>
        \E i \in ReadyTasks :
            /\ history' = Append(history, <<time, time + 1, tasks[i].task_id>>)
            /\ \A j \in ReadyTasks : StaticKey(i) <= StaticKey(j)

RMSTestTrace ==
    (inputs = TestRMSInputs /\ policy = "RMS" /\ pc = "done") =>
        SubSeq(Ran(history), 1, 5) = TestTrace

RMSSelection == [] RMSTestTrace /\ [][RMSStep]_vars

\* a later arrival with a shorter period has taken the processor from a
\* task that runs on its relative deadline and still had work
RMSPreempted ==
    /\ policy = "RMS"
    /\ inputs # TestRMSInputs
    /\ \E k \in 1..(Len(history) - 1) : \E i, j \in TaskRefs :
          /\ history[k][3] = tasks[i].task_id
          /\ history[k + 1][3] = tasks[j].task_id
          /\ tasks[j].arrival_time = k
          /\ tasks[i].period = 0
          /\ tasks[j].period > 0
          /\ StaticKey(j) < StaticKey(i)
          /\ Cardinality({m \in 1..k : history[m][3] = tasks[i].task_id})
                < tasks[i].burst_time

(***************************************************************************)
(* C3  History coverage.  The k-th history entry is (k-1, k, x) with x a   *)
(* task id or the idle marker; history grows only by appending the entry   *)
(* of the unit being simulated, one per unit; when run returns history has *)
(* max_time entries.                                                       *)
(***************************************************************************)
HistoryShape ==
    /\ \A k \in 1..Len(history) :
          /\ history[k][1] = k - 1
          /\ history[k][2] = k
          /\ history[k][3] \in {tasks[i].task_id : i \in TaskRefs} \cup {IDLE}
    /\ pc = "done" => Len(history) = max_time

HistoryAppendOnly ==
    /\ history' # history =>
          /\ Len(history') = Len(history) + 1
          /\ SubSeq(history', 1, Len(history)) = history
          /\ time' = time + 1
    /\ time' # time => history' # history

HistoryCoverage == [] HistoryShape /\ [][HistoryAppendOnly]_vars

\* a finished run whose history holds both idle units and task units
HistoryCovered ==
    /\ pc = "done"
    /\ max_time >= 3
    /\ Len(history) = max_time
    /\ \E k \in 1..Len(history) : history[k][3] = IDLE
    /\ \E k \in 1..Len(history) : history[k][3] # IDLE

(***************************************************************************)
(* C4  Missed-deadline flag.  When run has returned, a task is flagged     *)
(* exactly if it completed after its absolute deadline, or it still has    *)
(* remaining work and some simulated unit began strictly after its         *)
(* absolute deadline.                                                      *)
(***************************************************************************)
CompletedLate(i) ==
    /\ tasks[i].completion_time # -1
    /\ tasks[i].completion_time > AbsoluteDeadline(i)

OverdueUnfinished(i) ==
    /\ tasks[i].remaining_time > 0
    /\ \E t \in 0..(time - 1) : t > AbsoluteDeadline(i)

MissedFlagIff ==
    pc = "done" =>
        \A i \in TaskRefs :
            tasks[i].missed_deadline <=> (CompletedLate(i) \/ OverdueUnfinished(i))

(***************************************************************************)
(* C5  Remaining-time accounting.  In every state of a run each task's     *)
(* remaining_time is at least 0 and equals its burst_time minus the number *)
(* of history entries that bear its id.                                    *)
(***************************************************************************)
RemainingAccounting ==
    \A i \in TaskRefs :
        /\ tasks[i].remaining_time >= 0
        /\ tasks[i].remaining_time =
              tasks[i].burst_time - Cardinality(Units(tasks[i].task_id))

\* one task has run to its end while another is part of the way through
PartlyRun ==
    /\ \E i \in TaskRefs : /\ tasks[i].remaining_time > 0
                           /\ tasks[i].remaining_time < tasks[i].burst_time
    /\ \E j \in TaskRefs : /\ tasks[j].remaining_time = 0
                           /\ tasks[j].burst_time > 1

(***************************************************************************)
(* C6  Termination.  As claimed: run stops at the first of all tasks       *)
(* completed or time = max_time, and once every task of a non-empty set    *)
(* has completed no history entry is appended and time does not advance.   *)
(***************************************************************************)
AllCompleted == Len(tasks) > 0 /\ Len(completed_tasks) = Len(tasks)

StopsWhenAllCompleted == [][AllCompleted => (history' = history /\ time' = time)]_vars

(***************************************************************************)
(* C6, amended.  run stops exactly when time reaches max_time; while every *)
(* task has completed and time is below max_time, the next step simulates  *)
(* an idle unit: it appends (time, time + 1, IDLE) and advances time by 1. *)
(***************************************************************************)
StopsAtMaxTimeStep ==
    /\ (pc = "run" /\ pc' = "done") => time = max_time
    /\ (pc = "run" /\ time < max_time) => pc' = "run"
    /\ (AllCompleted /\ pc = "run" /\ time < max_time) =>
          /\ history' = Append(history, <<time, time + 1, IDLE>>)
          /\ time' = time + 1

StopsAtMaxTime == [](pc = "done" => time = max_time) /\ [][StopsAtMaxTimeStep]_vars

\* run has returned after simulating idle units past the last completion
IdledAfterAllCompleted ==
    /\ pc = "done"
    /\ AllCompleted
    /\ Len(history) = max_time
    /\ history[Len(history)][3] = IDLE
    /\ \A i \in TaskRefs : tasks[i].completion_time < max_time

(***************************************************************************)
(* C7  Miss counter.  missed_deadlines always equals the number of flagged *)
(* tasks; a step raises it by one exactly when it flags one more task, and *)
(* no flag is cleared, so no task is counted twice.                        *)
(***************************************************************************)
Flagged == {i \in TaskRefs : tasks[i].missed_deadline}

MissCounterStep ==
    pc = "run" =>
        LET newly == {i \in TaskRefs : tasks'[i].missed_deadline} \ Flagged
        IN  /\ Flagged \subseteq {i \in TaskRefs : tasks'[i].missed_deadline}
            /\ Cardinality(newly) <= 1
            /\ missed_deadlines' = missed_deadlines + Cardinality(newly)

MissCounterMatchesFlags ==
    [](missed_deadlines = Cardinality(Flagged)) /\ [][MissCounterStep]_vars

\* a finished run with a late completion and a completion in time
LateAndTimelyCompletion ==
    /\ pc = "done"
    /\ missed_deadlines >= 1
    /\ \E i \in TaskRefs : CompletedLate(i) /\ tasks[i].missed_deadline
    /\ \E j \in TaskRefs : /\ tasks[j].completion_time # -1
                           /\ ~tasks[j].missed_deadline

(***************************************************************************)
(* C8  Tie-break order.  Queue entries are (policy key, arrival time,      *)
(* sequence number, task); sequence numbers come from a counter that grows *)
(* by one at every insertion, re-insertion included, so no two entries     *)
(* share one; every selection extracts the entry that is least under       *)
(* (key, arrival time, sequence number) compared in that order.            *)
(***************************************************************************)
EntryBefore(a, b) ==
    \/ a[1] < b[1]
    \/ a[1] = b[1] /\ a[2] < b[2]
    \/ a[1] = b[1] /\ a[2] = b[2] /\ a[3] < b[3]

TieBreakState ==
    /\ \A a, b \in ready_queue : a # b => a[3] # b[3]
    /\ \A e \in ready_queue :
          /\ e[3] < task_counter
          /\ e[2] = tasks[e[4]].arrival_time
          /\ e[1] = IF policy = "EDF" THEN AbsoluteDeadline(e[4])
                                      ELSE StaticKey(e[4])

TieBreakStep ==
    pc = "run" =>
        /\ task_counter' >= task_counter
        /\ \A e \in ready_queue' \ ready_queue :
              /\ e[3] = task_counter
              /\ task_counter' = task_counter + 1
        /\ (time' = time + 1 /\ ready_queue # {}) =>
              \E e \in ready_queue :
                  /\ \A o \in ready_queue \ {e} : EntryBefore(e, o)
                  /\ history' = Append(history,
                                   <<time, time + 1, tasks[e[4]].task_id>>)
                  /\ e \notin ready_queue'

TieBreakOrder == [] TieBreakState /\ [][TieBreakStep]_vars

\* two queued tasks tie on key and arrival time after each has been selected
\* once and re-inserted
TieBrokenBySequence ==
    /\ Len(history) >= 2
    /\ history[1][3] # history[2][3]
    /\ \E a, b \in ready_queue :
          /\ a # b
          /\ a[1] = b[1]
          /\ a[2] = b[2]
          /\ a[3] >= 2
          /\ b[3] >= 2

(***************************************************************************)
(* C9  Arrival gating.  Tasks are admitted one by one in arrival-time      *)
(* order, each by a single admission step taken at the unit equal to its   *)
(* arrival time; every task due at a unit has been admitted before the     *)
(* unit runs; no history entry names a task that arrives after the entry's *)
(* start; a task with arrival_time >= max_time is never admitted.          *)
(***************************************************************************)
ArrivalState ==
    /\ pc # "start" =>
          \A i, j \in TaskRefs :
              i < j => tasks[i].arrival_time <= tasks[j].arrival_time
    /\ \A e \in ready_queue : e[4] <= task_idx
    /\ \A i \in 1..task_idx : tasks[i].arrival_time < max_time
    /\ \A k \in 1..Len(history) : \A i \in TaskRefs :
          history[k][3] = tasks[i].task_id =>
              /\ tasks[i].arrival_time <= history[k][1]
              /\ i <= task_idx
    /\ pc = "done" =>
          \A i \in TaskRefs : i <= task_idx <=> tasks[i].arrival_time < max_time

ArrivalStep ==
    /\ task_idx' # task_idx =>
          /\ task_idx' = task_idx + 1
          /\ tasks[task_idx'].arrival_time = time
          /\ ready_queue \subseteq ready_queue'
          /\ \E e \in ready_queue' :
                /\ e[4] = task_idx'
                /\ ready_queue' \ ready_queue = {e}
    /\ UnitStep =>
          \A i \in TaskRefs : tasks[i].arrival_time <= time => i <= task_idx

ArrivalGating == [] ArrivalState /\ [][ArrivalStep]_vars

\* a task that arrives at unit 1 was admitted then and has run, after an
\* idle unit 0
AdmittedOnArrival ==
    /\ pc = "done"
    /\ Len(history) >= 2
    /\ history[1][3] = IDLE
    /\ \E i \in 1..task_idx :
          /\ tasks[i].arrival_time = 1
          /\ history[2][3] = tasks[i].task_id

ResetState(ts, t, q, h, done, missed, counter) ==
    /\ t = 0
    /\ q = {}
    /\ h = <<>>
    /\ done = <<>>
    /\ missed = 0
    /\ counter = 0
    /\ \A i \in 1..Len(ts) :
          /\ ts[i].remaining_time = ts[i].burst_time
          /\ ts[i].start_time = -1
          /\ ts[i].completion_time = -1
          /\ ~ts[i].missed_deadline

RunBeginsReset ==
    [][(pc = "start" /\ pc' = "run") =>
           ResetState(tasks', time', ready_queue', history', completed_tasks',
                      missed_deadlines', task_counter')]_vars

(***************************************************************************)
(* C12  Invalid tasks are rejected.  As claimed: no task with              *)
(* burst_time <= 0, deadline <= 0 or arrival_time < 0 comes out of a       *)
(* construction, so every task a run operates on has arrival_time >= 0,    *)
(* burst_time > 0 and deadline > 0.                                        *)
(***************************************************************************)
ValidTask(task) ==
    /\ task.arrival_time >= 0
    /\ task.burst_time > 0
    /\ task.deadline > 0

RunsOnValidTasksOnly ==
    pc \in {"run", "done"} => \A i \in 1..Len(tasks) : ValidTask(tasks[i])

(***************************************************************************)
(* C13  Zero-task run.  run([], max_time = n) goes through start, run and  *)
(* done only, and returns the n idle entries <<0, 1, IDLE>> ..             *)
(* <<n-1, n, IDLE>>, an empty completed list and missed_deadlines = 0.     *)
(***************************************************************************)
AllIdle(n) == [k \in 1..n |-> <<k - 1, k, IDLE>>]

ZeroTaskRun ==
    inputs = <<>> =>
        /\ pc \in {"start", "run", "done"}
        /\ pc = "done" =>
              /\ history = AllIdle(max_time)
              /\ completed_tasks = <<>>
              /\ missed_deadlines = 0

ZeroTaskRunDone ==
    /\ inputs = <<>>
    /\ pc = "done"
    /\ max_time = MaxTime
    /\ Len(history) = MaxTime

(***************************************************************************)
(* C14  No forced completion.  Leaving the loop changes no task and adds   *)
(* nothing to completed_tasks, and after the run every task that still     *)
(* has remaining_time > 0 has completion_time = -1 and is not in           *)
(* completed_tasks.                                                        *)
(***************************************************************************)
Incomplete(i) ==
    /\ tasks[i].completion_time = -1
    /\ \A k \in 1..Len(completed_tasks) : completed_tasks[k] # i

UnfinishedStaysIncomplete ==
    pc = "done" =>
        \A i \in 1..Len(tasks) : tasks[i].remaining_time > 0 => Incomplete(i)

ReturnStep ==
    (pc = "run" /\ pc' = "done") =>
        /\ tasks' = tasks
        /\ completed_tasks' = completed_tasks

NoForcedCompletion == []UnfinishedStaysIncomplete /\ [][ReturnStep]_vars

CutOffMidway ==
    /\ pc = "done"
    /\ time = max_time
    /\ \E i \in 1..Len(tasks) :
          /\ tasks[i].remaining_time > 0
          /\ tasks[i].remaining_time < tasks[i].burst_time
          /\ Incomplete(i)

(***************************************************************************)
(* C15  Consumer agreement.  As claimed: after a run of the GUI, for every *)
(* task, show_results marks some history entry of the task as missed if    *)
(* and only if the engine set the task's missed_deadline flag.             *)
(***************************************************************************)
MarkedMissed(i) ==
    \E k \in 1..Len(history) :
        /\ history[k][3] = tasks[i].task_id
        /\ task_missed(history[k])

ConsumerAgreement ==
    pc = "done" =>
        \A i \in 1..Len(tasks) : MarkedMissed(i) <=> tasks[i].missed_deadline

(***************************************************************************)
(* C16  No error on infeasibility.  A run over tasks with positive burst   *)
(* and deadline and arrival_time >= 0 never raises: no two entries of the  *)
(* ready queue agree on key, arrival_time and counter, so no comparison    *)
(* reaches the Task objects, overloaded or not.                            *)
(***************************************************************************)
ComparableEntries ==
    \A a, b \in ready_queue :
        (a[1] = b[1] /\ a[2] = b[2] /\ a[3] = b[3]) => a = b

NoErrorOnInfeasibility ==
    /\ pc # "error"
    /\ ComparableEntries

\* an overloaded pair with equal keys and arrivals: one late, one unfinished
OverloadedTieDone ==
    /\ pc = "done"
    /\ Len(tasks) = 2
    /\ PriorityKey(policy, tasks[1]) = PriorityKey(policy, tasks[2])
    /\ tasks[1].arrival_time = tasks[2].arrival_time
    /\ tasks[1].start_time # -1
    /\ tasks[2].start_time # -1
    /\ \E i \in 1..2 : tasks[i].missed_deadline
    /\ \E i \in 1..2 : tasks[i].remaining_time > 0

(***************************************************************************)
(* C17  Completion step.  When the selected task's remaining_time reaches  *)
(* zero at unit t, its completion_time becomes t + 1 and it is appended    *)
(* to completed_tasks, which changes in no other way; a task is in         *)
(* completed_tasks at most once, completed_tasks is in strictly            *)
(* increasing completion_time order, and a completed task is neither in    *)
(* the ready queue nor named by a history entry after its completion.      *)
(***************************************************************************)
ReachesZero(i) == tasks[i].remaining_time # 0 /\ tasks'[i].remaining_time = 0

CompletionStep ==
    /\ \A i \in 1..Len(tasks) :
          (pc = "run" /\ ReachesZero(i)) =>
              /\ tasks'[i].completion_time = time + 1
              /\ completed_tasks' = Append(completed_tasks, i)
    /\ (pc = "run" /\ completed_tasks' # completed_tasks) =>
          \E i \in 1..Len(tasks) : ReachesZero(i)

CompletedOnce ==
    /\ \A j, k \in 1..Len(completed_tasks) :
          j < k =>
              /\ completed_tasks[j] # completed_tasks[k]
              /\ tasks[completed_tasks[j]].completion_time
                     < tasks[completed_tasks[k]].completion_time
    /\ \A j \in 1..Len(completed_tasks) :
          LET done == tasks[completed_tasks[j]]
          IN  /\ \A e \in ready_queue : e[4] # completed_tasks[j]
              /\ \A k \in 1..Len(history) :
                    history[k][3] = done.task_id =>
                        history[k][2] <= done.completion_time

CompletionOrder == []CompletedOnce /\ [][CompletionStep]_vars

TwoCompletedThenMore ==
    /\ pc = "done"
    /\ Len(completed_tasks) = 2
    /\ Len(history) > tasks[completed_tasks[1]].completion_time
    /\ tasks[completed_tasks[1]].arrival_time
           > tasks[completed_tasks[2]].arrival_time

(***************************************************************************)
(* C18  Per-unit frame.  In a time unit whose history entry names a task,  *)
(* that task and no other has its remaining_time decreased, by exactly 1,  *)
(* and no other task's remaining_time, start_time, completion_time or      *)
(* missed_deadline changes; in an idle unit, and in the steps of a run     *)
(* that are not time units, no task changes in these fields.  During a     *)
(* run remaining_time never increases and no task's absolute_deadline,     *)
(* arrival_time, burst_time, deadline or period changes.                   *)
(***************************************************************************)
SameProgress(i) ==
    /\ tasks'[i].remaining_time = tasks[i].remaining_time
    /\ tasks'[i].start_time = tasks[i].start_time
    /\ tasks'[i].completion_time = tasks[i].completion_time
    /\ tasks'[i].missed_deadline = tasks[i].missed_deadline

SameConstruction(i) ==
    /\ tasks'[i].task_id = tasks[i].task_id
    /\ tasks'[i].absolute_deadline = tasks[i].absolute_deadline
    /\ tasks'[i].arrival_time = tasks[i].arrival_time
    /\ tasks'[i].burst_time = tasks[i].burst_time
    /\ tasks'[i].deadline = tasks[i].deadline
    /\ tasks'[i].period = tasks[i].period

SelectedIn(i) ==
    /\ Len(history') = Len(history) + 1
    /\ history'[Len(history')][3] = tasks[i].task_id

FrameStep ==
    pc = "run" =>
        /\ Len(tasks') = Len(tasks)
        /\ \A i \in 1..Len(tasks) :
              /\ SameConstruction(i)
              /\ tasks'[i].remaining_time <= tasks[i].remaining_time
              /\ IF UnitStep /\ SelectedIn(i)
                 THEN tasks'[i].remaining_time = tasks[i].remaining_time - 1
                 ELSE SameProgress(i)

PerUnitFrame == [][FrameStep]_vars

OneRanOtherWaited ==
    /\ pc = "run"
    /\ Len(tasks) = 2
    /\ time > 0
    /\ Len(history) = time
    /\ \E i, j \in 1..2 :
          /\ i # j
          /\ history[Len(history)][3] = tasks[i].task_id
          /\ tasks[j].start_time # -1
          /\ tasks[j].remaining_time > 0
          /\ tasks[j].remaining_time < tasks[j].burst_time
          /\ \E e \in ready_queue : e[4] = j

(***************************************************************************)
(* C19  Start time.  A task's start_time is -1 as long as no history entry *)
(* names it, equals the start of the first entry that names it from then   *)
(* on, and once set is never written again, also when the task is          *)
(* preempted and resumed.                                                  *)
(***************************************************************************)
EntriesOf(id) == {k \in 1..Len(history) : history[k][3] = id}

FirstEntryOf(id) == CHOOSE k \in EntriesOf(id) : \A o \in EntriesOf(id) : k <= o

StartTimeIsFirstUnit ==
    \A i \in 1..Len(tasks) :
        IF EntriesOf(tasks[i].task_id) = {}
        THEN tasks[i].start_time = -1
        ELSE tasks[i].start_time = history[FirstEntryOf(tasks[i].task_id)][1]

StartTimeKept ==
    pc = "run" =>
        \A i \in 1..Len(tasks) :
            tasks[i].start_time # -1 => tasks'[i].start_time = tasks[i].start_time

StartTimeSetOnce == []StartTimeIsFirstUnit /\ [][StartTimeKept]_vars

ResumedAfterPreemption ==
    /\ pc = "done"
    /\ \E i \in 1..Len(tasks) :
          \E k1, k2, k3 \in 1..Len(history) :
              /\ k1 < k2 /\ k2 < k3
              /\ history[k1][3] = tasks[i].task_id
              /\ history[k2][3] # tasks[i].task_id
              /\ history[k2][3] # IDLE
              /\ history[k3][3] = tasks[i].task_id
              /\ tasks[i].start_time = history[k1][1]

(***************************************************************************)
(* C20  Miss counter of the command-line engine.  As claimed: after        *)
(* run_scheduler, missed_deadlines_count equals the number of tasks whose  *)
(* missed_deadline flag is set; a task flagged while overdue and           *)
(* completed late afterwards is counted once.                              *)
(***************************************************************************)
CLIFlagged == {i \in 1..Len(cli.tasks) : cli.tasks[i].missed_deadline}

CLIMissCounterMatchesFlags ==
    cli.pc = "done" => cli.missed_deadlines_count = Cardinality(CLIFlagged)

(***************************************************************************)
(* C21  Period default.  As claimed: a task constructed without a period   *)
(* has period = deadline (its relative deadline), and under RMS its        *)
(* priority key is its relative deadline.                                  *)
(***************************************************************************)
BuiltWithoutPeriod(i) == Len(inputs[RowOf(tasks[i].task_id)]) = 4

PeriodDefaultsToDeadline ==
    \A i \in 1..Len(tasks) :
        BuiltWithoutPeriod(i) =>
            /\ tasks[i].period = tasks[i].deadline
            /\ RMSKey(tasks[i]) = tasks[i].deadline

(***************************************************************************)
(* C22  Second run of the command-line engine.  As claimed: a second       *)
(* run_scheduler on the same scheduler and tasks enters its loop at time 0 *)
(* with every task at remaining_time = execution_time, not completed and   *)
(* not flagged, and ends with the timeline and the missed_deadlines_count  *)
(* of the first run.                                                       *)
(***************************************************************************)
CLITaskReset(task) ==
    /\ task.remaining_time = task.execution_time
    /\ ~task.is_completed
    /\ ~task.missed_deadline

CLIAtLoopEntry ==
    /\ cli.pc = "loop"
    /\ cli.current_time = 0
    /\ cli.timeline = <<>>

CLISecondRunSame ==
    runs = 2 =>
        /\ CLIAtLoopEntry =>
              \A i \in 1..Len(cli.tasks) : CLITaskReset(cli.tasks[i])
        /\ cli.pc = "done" => CLIResults = prev[1]

(***************************************************************************)
(* C23  Completion in the command-line engine.  As claimed: a task whose   *)
(* last unit of work runs in unit [t, t+1), the unit of the last timeline  *)
(* entry that names it, has completion_time = t + 1 and is flagged         *)
(* missed_deadline exactly when t + 1 > deadline.                          *)
(***************************************************************************)
CLIEntriesOf(id) == {k \in 1..Len(cli.timeline) : cli.timeline[k].task_id = id}

CLILastUnitOf(id) ==
    cli.timeline[CHOOSE k \in CLIEntriesOf(id) :
                     \A o \in CLIEntriesOf(id) : o <= k].time

CLICompletionAtUnitEnd ==
    \A i \in 1..Len(cli.tasks) :
        cli.tasks[i].is_completed =>
            LET t == CLILastUnitOf(cli.tasks[i].task_id)
            IN  /\ cli.tasks[i].completion_time = t + 1
                /\ cli.tasks[i].missed_deadline <=> t + 1 > cli.tasks[i].deadline

(***************************************************************************)
(* C24  Ready-queue invariant.  At the start of every time unit, once the  *)
(* arrivals of that time have been admitted, the ready queue holds exactly *)
(* one entry for each task with arrival_time <= time and                   *)
(* remaining_time > 0, and none for a completed or not yet arrived task.   *)
(***************************************************************************)
AtUnitStart == pc = "run" /\ time < max_time /\ ~ArrivalPending

QueuedTasks == {e[4] : e \in ready_queue}

ReadyQueueExact ==
    AtUnitStart =>
        /\ QueuedTasks = ReadyTasks
        /\ Cardinality(ready_queue) = Cardinality(ReadyTasks)
        /\ \A i \in TaskRefs :
              (tasks[i].completion_time # -1 \/ tasks[i].arrival_time > time)
                  => i \notin QueuedTasks

QueueOfEachKind ==
    /\ AtUnitStart
    /\ time > 0
    /\ Cardinality(ready_queue) = 2
    /\ \E i \in QueuedTasks : tasks[i].start_time # -1

(***************************************************************************)
(* C25  Work conservation.  The history entry written for the unit         *)
(* [t, t+1) is the idle marker if and only if, at t, no task with          *)
(* arrival_time <= t has remaining_time > 0: the processor never idles     *)
(* while an arrived task is unfinished, and never runs a task otherwise.   *)
(***************************************************************************)
WorkConservingStep ==
    UnitStep =>
        /\ Len(history') = Len(history) + 1
        /\ history'[Len(history')][1] = time
        /\ history'[Len(history')][3] = IDLE <=> ReadyTasks = {}

WorkConservation == [][WorkConservingStep]_vars

IdleThenBusy ==
    /\ Len(history) >= 3
    /\ history[1][3] = IDLE
    /\ history[2][3] # IDLE
    /\ history[Len(history)][3] = IDLE

(***************************************************************************)
(* C26  Eventual completion.  If max_time >= (largest arrival_time) +      *)
(* (sum of all burst_time), then when the run has returned every task is   *)
(* in completed_tasks with remaining_time = 0, under either policy.        *)
(***************************************************************************)
RECURSIVE LargestArrival(_)
LargestArrival(ts) ==
    IF ts = <<>> THEN 0
    ELSE LET m == LargestArrival(Tail(ts))
         IN  IF ts[1].arrival_time > m THEN ts[1].arrival_time ELSE m

RECURSIVE SumOfBursts(_)
SumOfBursts(ts) ==
    IF ts = <<>> THEN 0 ELSE ts[1].burst_time + SumOfBursts(Tail(ts))

EnoughTime == max_time >= LargestArrival(tasks) + SumOfBursts(tasks)

EventualCompletion ==
    (pc = "done" /\ EnoughTime) =>
        \A i \in TaskRefs :
            /\ tasks[i].remaining_time = 0
            /\ \E k \in 1..Len(completed_tasks) : completed_tasks[k] = i

CompletedJustInTime ==
    /\ pc = "done"
    /\ Len(tasks) = 2
    /\ max_time = LargestArrival(tasks) + SumOfBursts(tasks)
    /\ Len(completed_tasks) = 2
    /\ \E i \in TaskRefs : tasks[i].completion_time = max_time

(***************************************************************************)
(* C27  Round-robin among full ties.  For two tasks with equal priority    *)
(* key and equal arrival_time: the one inserted first runs first, and      *)
(* between two successive units of one of them the other, if it still has  *)
(* remaining work at the second of these units, runs exactly one unit.  In *)
(* particular neither runs two consecutive units while the other is        *)
(* unfinished.                                                             *)
(***************************************************************************)
FullTie(i, j) ==
    /\ i # j
    /\ PriorityKey(policy, tasks[i]) = PriorityKey(policy, tasks[j])
    /\ tasks[i].arrival_time = tasks[j].arrival_time

\* j has remaining work at the start of the unit of history entry m
UnfinishedAt(j, m) ==
    \/ tasks[j].completion_time = -1
    \/ tasks[j].completion_time > history[m][1]

SuccessiveUnits(i, k, m) ==
    /\ k < m
    /\ history[k][3] = tasks[i].task_id
    /\ history[m][3] = tasks[i].task_id
    /\ \A n \in (k + 1)..(m - 1) : history[n][3] # tasks[i].task_id

UnitsBetween(j, k, m) ==
    {n \in (k + 1)..(m - 1) : history[n][3] = tasks[j].task_id}

RoundRobinAmongTies ==
    pc \in {"run", "done"} =>
        \A i, j \in TaskRefs :
            FullTie(i, j) =>
                /\ \A k, m \in 1..Len(history) :
                      (SuccessiveUnits(i, k, m) /\ UnfinishedAt(j, m)) =>
                          Cardinality(UnitsBetween(j, k, m)) = 1
                /\ (i < j /\ tasks[j].start_time # -1) =>
                      /\ tasks[i].start_time # -1
                      /\ tasks[i].start_time < tasks[j].start_time

TiedPairAlternated ==
    /\ pc = "done"
    /\ Len(tasks) = 2
    /\ FullTie(1, 2)
    /\ Len(history) >= 4
    /\ \E t \in 1..(Len(history) - 3) :
          /\ history[t][3] = tasks[1].task_id
          /\ history[t + 1][3] = tasks[2].task_id
          /\ history[t + 2][3] = tasks[1].task_id
          /\ history[t + 3][3] = tasks[2].task_id

(***************************************************************************)
(* C28  Timing bounds.  Every task that has started has                    *)
(* arrival_time <= start_time; every completed task has                    *)
(* start_time + burst_time <= completion_time <= max_time, and             *)
(* start_time + burst_time = completion_time exactly when the task was     *)
(* never preempted, that is, when no unit between two of its units went    *)
(* to something else.                                                      *)
(***************************************************************************)
Preempted(i) ==
    \E k, m \in Units(tasks[i].task_id) :
        \E n \in (k + 1)..(m - 1) : history[n][3] # tasks[i].task_id

TimingBounds ==
    \A i \in TaskRefs :
        /\ tasks[i].start_time # -1 =>
              tasks[i].arrival_time <= tasks[i].start_time
        /\ tasks[i].completion_time # -1 =>
              /\ tasks[i].start_time # -1
              /\ tasks[i].start_time + tasks[i].burst_time
                     <= tasks[i].completion_time
              /\ tasks[i].completion_time <= max_time
              /\ (tasks[i].start_time + tasks[i].burst_time
                     = tasks[i].completion_time) <=> ~Preempted(i)

PreemptedAndUnpreempted ==
    /\ pc = "done"
    /\ Len(completed_tasks) = 2
    /\ \E i, j \in TaskRefs :
          /\ Preempted(i)
          /\ tasks[i].completion_time = max_time
          /\ tasks[i].completion_time > tasks[i].start_time + tasks[i].burst_time
          /\ ~Preempted(j)
          /\ tasks[j].completion_time = tasks[j].start_time + tasks[j].burst_time
          /\ tasks[j].start_time = tasks[j].arrival_time

====
